---- MODULE Spec2Model ----
(***************************************************************************)
(* Model of exploder.py: pattern nodes (Value, CharacterRange,             *)
(* CharacterSet, Product, Sum, Repeated), their combinators, choices(),    *)
(* __getitem__, regex() and the RegexIter enumerator.                      *)
(*                                                                         *)
(* Text is a sequence of code points.  A call returns a record whose err   *)
(* field is "" on a normal return and the exception's name otherwise.      *)
(***************************************************************************)
EXTENDS Integers, Sequences, FiniteSets, TLC

VARIABLES node, last, iters

vars == <<node, last, iters>>

---------------------------------------------------------------------------
(* Bounds of the model *)

\* largest end - start of a CharacterRange given as input
MaxSpan == 2
\* largest min given to an unbounded Repeat(min, None)
MaxMin == 6
\* largest max given to a bounded Repeat(min, max), and largest plain count
MaxMax == 1
\* how far past the node's cardinality, and below zero, an index is requested
MaxOver == 1
\* how many times an exhausted enumerator is asked again
MaxStops == 2

---------------------------------------------------------------------------
(* Program constants *)

\* FLAG_max_repeat default
Cap == 5
\* Repeat.max of an unbounded repeat (Python None)
None == -1

\* code points of the characters the program writes
LParen == 40
RParen == 41
Star == 42
Plus == 43
Comma == 44
Dash == 45
Zero == 48
LBracket == 91
RBracket == 93
Caret == 94
LBrace == 123
Bar == 124
RBrace == 125
\* code points of the letters used as sample input
ChA == 97
ChB == 98

---------------------------------------------------------------------------
(* Helpers for Python values *)

IntOk(v) == [err |-> "", val |-> v]
IntRaise(e) == [err |-> e, val |-> 0]
StrOk(t) == [err |-> "", text |-> t]
StrRaise(e) == [err |-> e, text |-> <<>>]

SetMin(S) == CHOOSE x \in S : \A y \in S : x <= y
Max2(a, b) == IF a >= b THEN a ELSE b

RECURSIVE Join(_)
\* ''.join(outputs)
Join(outputs) ==
  IF Len(outputs) = 0 THEN <<>> ELSE Head(outputs) \o Join(Tail(outputs))

RECURSIVE JoinSep(_, _)
\* sep.join(parts)
JoinSep(sep, parts) ==
  IF Len(parts) = 0 THEN <<>>
  ELSE IF Len(parts) = 1 THEN parts[1]
  ELSE parts[1] \o sep \o JoinSep(sep, Tail(parts))

RECURSIVE StrTimes(_, _)
\* str * int: the empty text for a count <= 0
StrTimes(s, n) == IF n <= 0 THEN <<>> ELSE s \o StrTimes(s, n - 1)

RECURSIVE Str(_)
\* str(n) of a non-negative int: its decimal digits
Str(n) == IF n < 10 THEN <<Zero + n>> ELSE Str(n \div 10) \o <<Zero + (n % 10)>>

RECURSIVE ReduceMul(_)
\* reduce(lambda x, y: x * y, ws, 1)
ReduceMul(ws) == IF Len(ws) = 0 THEN 1 ELSE Head(ws) * ReduceMul(Tail(ws))

RECURSIVE SumOf(_)
\* sum(ws)
SumOf(ws) == IF Len(ws) = 0 THEN 0 ELSE Head(ws) + SumOf(Tail(ws))

---------------------------------------------------------------------------
(* Constructors *)

Value(text) == [kind |-> "Value", text |-> text]

CharacterRange(start, end) == [kind |-> "CharacterRange", start |-> start, end |-> end]

\* CharacterSet.__to_remove
to_remove == <<Dash, Caret>>

\* CharacterSet.__init__: values is the collection given, order one iteration
\* order of the set of its other characters (Python fixes none)
CharacterSet(values, negated, order) ==
  LET bad == SelectSeq(to_remove, LAMBDA c : c \in values)
  IN [kind |-> "CharacterSet", values |-> order \o bad, negated |-> negated]

\* the iteration orders a set of characters can have
Orders(S) ==
  {o \in [1..Cardinality(S) -> S] : \A x \in S : \E k \in 1..Cardinality(S) : o[k] = x}

Product(values) == [kind |-> "Product", values |-> values, c |-> <<>>]

Sum(values) == [kind |-> "Sum", values |-> values, c |-> <<>>]

Repeat(min, max) == [kind |-> "Repeat", min |-> min, max |-> max]

Repeated(value, repeat) == [kind |-> "Repeated", value |-> value, repeat |-> repeat]

---------------------------------------------------------------------------
(* choices() *)

RECURSIVE choices(_), getitem(_, _), regex(_), fill(_)

\* [v.choices() for v in self.values]: the first exception ends it
ListChoices(values) ==
  LET rs == [k \in 1..Len(values) |-> choices(values[k])]
      bad == {k \in 1..Len(values) : rs[k].err # ""}
  IN IF bad = {} THEN [err |-> "", list |-> [k \in 1..Len(values) |-> rs[k].val]]
     ELSE [err |-> rs[SetMin(bad)].err, list |-> <<>>]

\* Product.__choices and Sum.__choices: the cached list when there is one
cached_choices(self) ==
  IF Len(self.c) = 1 THEN [err |-> "", list |-> self.c[1]]
  ELSE ListChoices(self.values)

Product_choices(self) ==
  LET w == cached_choices(self)
  IN IF w.err # "" THEN IntRaise(w.err) ELSE IntOk(ReduceMul(w.list))

Sum_choices(self) ==
  LET w == cached_choices(self)
  IN IF w.err # "" THEN IntRaise(w.err) ELSE IntOk(SumOf(w.list))

\* the upper repetition bound used for counting
effectiveMax(repeat) ==
  IF repeat.max = None THEN Max2(Cap, repeat.min) ELSE repeat.max

\* the count with max taken as exclusive
Repeated_count_exclusive(self) == effectiveMax(self.repeat) - self.repeat.min

\* Repeated.__count
Repeated_count(self) == effectiveMax(self.repeat) - self.repeat.min + 1

Repeated_choices(self) ==
  LET w == choices(self.value)
  IN IF w.err # "" THEN w ELSE IntOk(w.val * Repeated_count(self))

CharacterSet_choices(self) ==
  IF self.negated THEN IntRaise("Exception") ELSE IntOk(Len(self.values))

choices(self) ==
  CASE self.kind = "Value" -> IntOk(1)
    [] self.kind = "CharacterRange" -> IntOk(self.end - self.start + 1)
    [] self.kind = "CharacterSet" -> CharacterSet_choices(self)
    [] self.kind = "Product" -> Product_choices(self)
    [] self.kind = "Sum" -> Sum_choices(self)
    [] self.kind = "Repeated" -> Repeated_choices(self)

\* the node after a choices() call: the caches the call has written
fill(self) ==
  CASE self.kind \in {"Product", "Sum"} ->
         IF Len(self.c) = 1 THEN self
         ELSE LET w == ListChoices(self.values)
                  n == Len(self.values)
                  bad == {k \in 1..n : choices(self.values[k]).err # ""}
                  stop == IF bad = {} THEN n ELSE SetMin(bad)
              IN [self EXCEPT
                    !.values = [k \in 1..n |->
                                  IF k <= stop THEN fill(self.values[k])
                                  ELSE self.values[k]],
                    !.c = IF w.err = "" THEN <<w.list>> ELSE <<>>]
    [] self.kind = "Repeated" -> [self EXCEPT !.value = fill(self.value)]
    [] OTHER -> self

---------------------------------------------------------------------------
(* __getitem__ *)

\* RegexType._range_check: the exception it raises, "" when it returns
range_check(self, index) ==
  LET n == choices(self)
  IN IF n.err # "" THEN n.err
     ELSE IF index >= n.val THEN "IndexError"
     ELSE ""

Value_getitem(self, index) ==
  LET e == range_check(self, index)
  IN IF e # "" THEN StrRaise(e) ELSE StrOk(self.text)

\* chr() rejects a negative code point
CharacterRange_getitem(self, index) ==
  LET e == range_check(self, index)
  IN IF e # "" THEN StrRaise(e)
     ELSE IF self.start + index < 0 THEN StrRaise("ValueError")
     ELSE StrOk(<<self.start + index>>)

\* self.values[index]: a negative index counts from the end of the text
CharacterSet_getitem(self, index) ==
  LET e == range_check(self, index)
      n == Len(self.values)
  IN IF e # "" THEN StrRaise(e)
     ELSE IF index < -n THEN StrRaise("IndexError")
     ELSE IF index < 0 THEN StrOk(<<self.values[n + index + 1]>>)
     ELSE StrOk(<<self.values[index + 1]>>)

\* the two statements of the loop body in the other order
Product_step_swapped(index, weight) ==
  [option |-> (index \div weight) % weight, index |-> index \div weight]

\* option = index % weight; index = index // weight
Product_step(index, weight) ==
  [option |-> index % weight, index |-> index \div weight]

RECURSIVE Product_loop(_, _, _, _, _)
\* the for loop of Product.__getitem__, from child i (1-based) on
Product_loop(self, weights, index, i, outputs) ==
  IF i > Len(weights) THEN StrOk(Join(outputs))
  ELSE IF weights[i] = 0 THEN StrRaise("ZeroDivisionError")
  ELSE LET s == Product_step(index, weights[i])
           r == getitem(self.values[i], s.option)
       IN IF r.err # "" THEN r
          ELSE Product_loop(self, weights, s.index, i + 1, Append(outputs, r.text))

Product_getitem(self, index) ==
  LET e == range_check(self, index)
  IN IF e # "" THEN StrRaise(e)
     ELSE Product_loop(self, cached_choices(self).list, index, 1, <<>>)

\* option += 1 without index -= weights[option]
Sum_step_keep(index, option, weight) ==
  [index |-> index, option |-> option + 1]

\* index -= weights[option]; option += 1
Sum_step(index, option, weight) ==
  [index |-> index - weight, option |-> option + 1]

RECURSIVE Sum_loop(_, _, _)
\* the while loop of Sum.__getitem__; option is 0-based as in the code, and
\* weights[option] past the end of the list raises IndexError
Sum_loop(weights, index, option) ==
  IF option >= Len(weights) THEN [err |-> "IndexError", index |-> index, option |-> option]
  ELSE IF index >= weights[option + 1]
       THEN LET s == Sum_step(index, option, weights[option + 1])
            IN Sum_loop(weights, s.index, s.option)
       ELSE [err |-> "", index |-> index, option |-> option]

Sum_getitem(self, index) ==
  LET e == range_check(self, index)
  IN IF e # "" THEN StrRaise(e)
     ELSE LET f == Sum_loop(cached_choices(self).list, index, 0)
          IN IF f.err # "" THEN StrRaise(f.err)
             ELSE getitem(self.values[f.option + 1], f.index)

\* val * self.repeat.min + val * index
Repeated_single(val, repeat, index) ==
  StrTimes(val, repeat.min) \o StrTimes(val, index)

RECURSIVE Repeated_optional(_, _, _, _)
\* the while loop of Repeated.__getitem__
Repeated_optional(self, n, index, outputs) ==
  IF ~(index > 0) THEN [err |-> "", outputs |-> outputs]
  ELSE IF n = 0 THEN [err |-> "ZeroDivisionError", outputs |-> <<>>]
  ELSE LET r == getitem(self.value, index % n)
       IN IF r.err # "" THEN [err |-> r.err, outputs |-> <<>>]
          ELSE Repeated_optional(self, n, index \div n, Append(outputs, r.text))

RECURSIVE Repeated_mandatory(_, _, _, _, _)
\* the for loop of Repeated.__getitem__ with todo rounds left, then the while loop
Repeated_mandatory(self, n, index, todo, outputs) ==
  IF todo <= 0 THEN Repeated_optional(self, n, index, outputs)
  ELSE IF n = 0 THEN [err |-> "ZeroDivisionError", outputs |-> <<>>]
  ELSE LET r == getitem(self.value, index % n)
       IN IF r.err # "" THEN [err |-> r.err, outputs |-> <<>>]
          ELSE Repeated_mandatory(self, n, index \div n, todo - 1, Append(outputs, r.text))

\* the list outputs of Repeated.__getitem__ when the child has several outputs
Repeated_outputs(self, index) ==
  Repeated_mandatory(self, choices(self.value).val, index, self.repeat.min, <<>>)

Repeated_getitem(self, index) ==
  LET e == range_check(self, index)
      n == choices(self.value)
  IN IF e # "" THEN StrRaise(e)
     ELSE IF n.val = 1
          THEN LET v == getitem(self.value, 0)
               IN IF v.err # "" THEN v
                  ELSE StrOk(Repeated_single(v.text, self.repeat, index))
          ELSE LET o == Repeated_outputs(self, index)
               IN IF o.err # "" THEN StrRaise(o.err) ELSE StrOk(Join(o.outputs))

getitem(self, index) ==
  CASE self.kind = "Value" -> Value_getitem(self, index)
    [] self.kind = "CharacterRange" -> CharacterRange_getitem(self, index)
    [] self.kind = "CharacterSet" -> CharacterSet_getitem(self, index)
    [] self.kind = "Product" -> Product_getitem(self, index)
    [] self.kind = "Sum" -> Sum_getitem(self, index)
    [] self.kind = "Repeated" -> Repeated_getitem(self, index)

---------------------------------------------------------------------------
(* regex() *)

Value_regex(self) == <<LParen>> \o self.text \o <<RParen>>

CharacterRange_regex(self) == <<LBracket, self.start, Dash, self.end, RBracket>>

CharacterSet_regex(self) ==
  LET n == IF self.negated THEN <<Caret>> ELSE <<>>
  IN <<LBracket>> \o n \o self.values \o <<RBracket>>

\* Repeat.regex: None and 0 are both false in "if self.max"
Repeat_regex(self) ==
  IF self.max # None /\ self.max # 0
  THEN IF self.max = self.min
       THEN <<LBrace>> \o Str(self.min) \o <<RBrace>>
       ELSE <<LBrace>> \o Str(self.min) \o <<Comma>> \o Str(self.max) \o <<RBrace>>
  ELSE IF self.min > 1 THEN <<LBrace>> \o Str(self.min) \o <<Comma, RBrace>>
  ELSE IF self.min = 1 THEN <<Plus>>
  ELSE <<Star>>

Product_regex(self) ==
  <<LParen>> \o Join([k \in 1..Len(self.values) |-> regex(self.values[k])]) \o <<RParen>>

Sum_regex(self) ==
  <<LParen>> \o JoinSep(<<Bar>>, [k \in 1..Len(self.values) |-> regex(self.values[k])])
             \o <<RParen>>

Repeated_regex(self) == regex(self.value) \o Repeat_regex(self.repeat)

regex(self) ==
  CASE self.kind = "Value" -> Value_regex(self)
    [] self.kind = "CharacterRange" -> CharacterRange_regex(self)
    [] self.kind = "CharacterSet" -> CharacterSet_regex(self)
    [] self.kind = "Product" -> Product_regex(self)
    [] self.kind = "Sum" -> Sum_regex(self)
    [] self.kind = "Repeated" -> Repeated_regex(self)

---------------------------------------------------------------------------
(* Combinators: the operand other is a node, a bare text [kind |-> "str"],  *)
(* a bare count [kind |-> "int"] or a Repeat                                *)

PyStr(text) == [kind |-> "str", text |-> text]
PyInt(n) == [kind |-> "int", val |-> n]

\* isinstance(other, str): Value is a subclass of str
isStr(other) == other.kind \in {"str", "Value"}

RegexType_add(self, other) ==
  Product(<<self, IF isStr(other) THEN Value(other.text) ELSE other>>)

Value_add(self, other) ==
  IF isStr(other) THEN Value(self.text \o other.text) ELSE RegexType_add(self, other)

Product_add(self, other) ==
  LET o == IF isStr(other) THEN Value(other.text) ELSE other
  IN IF o.kind = "Product" THEN Product(self.values \o o.values)
     ELSE Product(Append(self.values, o))

add(self, other) ==
  CASE self.kind = "Value" -> Value_add(self, other)
    [] self.kind = "Product" -> Product_add(self, other)
    [] OTHER -> RegexType_add(self, other)

RegexType_or(self, other) ==
  Sum(<<self, IF isStr(other) THEN Value(other.text) ELSE other>>)

Sum_or(self, other) ==
  LET o == IF isStr(other) THEN Value(other.text) ELSE other
  IN IF o.kind = "Sum" THEN Sum(self.values \o o.values)
     ELSE Sum(Append(self.values, o))

or_(self, other) ==
  CASE self.kind = "Sum" -> Sum_or(self, other)
    [] OTHER -> RegexType_or(self, other)

\* other is a count or a Repeat here
RegexType_mul(self, other) ==
  Repeated(self, IF other.kind = "int" THEN Repeat(other.val, other.val) ELSE other)

Value_mul(self, other) ==
  IF other.kind = "int" THEN Value(StrTimes(self.text, other.val))
  ELSE RegexType_mul(self, other)

mul(self, other) ==
  CASE self.kind = "Value" -> Value_mul(self, other)
    [] OTHER -> RegexType_mul(self, other)

---------------------------------------------------------------------------
(* The inputs: trees built with the constructors and combinators *)

TextA == <<ChA>>
TextB == <<ChB>>

\* literals and character ranges
Kids == {Value(TextA)} \cup {CharacterRange(ChA, ChA + k) : k \in 0..MaxSpan}

Atoms == Kids \cup {Product(<<>>), Sum(<<>>)}

\* Repeat.any(), more(), atleast(x), upto(x), between(x, y) and plain counts
Repeats ==
  {Repeat(x, None) : x \in 0..MaxMin}
    \cup UNION {{Repeat(x, y) : y \in x..MaxMax} : x \in 0..MaxMax}
    \cup {PyInt(n) : n \in 0..MaxMax}

\* every character collection given to CharacterSet, with every iteration order
SetLeaves ==
  UNION { { CharacterSet(vs, neg, o) : o \in Orders(vs \ {Dash, Caret}), neg \in BOOLEAN }
          : vs \in (SUBSET {ChA, ChB, Dash, Caret}) \ {{}} }

\* a + b and a | b
Pairs ==
  UNION { {add(a, b), or_(a, b)} : a \in Atoms, b \in Atoms \cup {PyStr(TextB)} }

\* (a + b) + c, Product(a + b, c), a + (b + c), and the same with |
Triples ==
  UNION { { add(add(a, b), c), Product(<<add(a, b), c>>), add(a, add(b, c)),
            or_(or_(a, b), c), Sum(<<or_(a, b), c>>), or_(a, or_(b, c)) }
          : a \in Kids, b \in Kids, c \in {Value(TextA), CharacterRange(ChA, ChA + MaxSpan)} }

\* a * r, (a | "b") * r and [ab] * r
Reps ==
  { mul(a, r) : a \in Atoms \cup {or_(Value(TextA), PyStr(TextB)),
                                  CharacterSet({ChA, ChB}, FALSE, <<ChB, ChA>>)},
                r \in Repeats }

\* a repeat or a negated set below a Product or a Sum
Mixed ==
  UNION { { add(mul(CharacterRange(ChA, ChB), r), b), or_(mul(CharacterRange(ChA, ChB), r), b) }
          : r \in Repeats, b \in {CharacterRange(ChA, ChB)} }
    \cup UNION { { add(a, n), or_(a, n), mul(n, Repeat(0, 1)) }
                 : a \in {CharacterRange(ChA, ChB), Product(<<>>)},
                   n \in {CharacterSet({ChA}, TRUE, <<ChA>>)} }

Trees == Atoms \cup SetLeaves \cup Pairs \cup Triples \cup Reps \cup Mixed

NoCall == [op |-> "", index |-> 0, err |-> "", text |-> <<>>, val |-> 0]
NoIter == [live |-> FALSE, index |-> 0, out |-> <<>>, stops |-> 0, err |-> ""]
Iters == {1, 2}

\* the indexes a caller asks for: the valid ones and MaxOver on either side
Indexes(self) ==
  LET n == choices(self) IN (-MaxOver)..((IF n.err = "" THEN n.val ELSE 0) + MaxOver - 1)

---------------------------------------------------------------------------
(* The state machine: node is the tree the caller holds, last the outcome   *)
(* of the latest query, iters the enumerators made from node                *)

Init ==
  /\ node \in Trees
  /\ last = NoCall
  /\ iters = [e \in Iters |-> NoIter]

\* node[index]
GetItem ==
  \E index \in Indexes(node) :
    LET r == getitem(node, index)
    IN /\ last' = [op |-> "getitem", index |-> index, err |-> r.err,
                   text |-> r.text, val |-> 0]
       /\ node' = fill(node)
       /\ UNCHANGED iters

\* node.choices()
Choices ==
  LET r == choices(node)
  IN /\ last' = [op |-> "choices", index |-> 0, err |-> r.err, text |-> <<>>,
                 val |-> r.val]
     /\ node' = fill(node)
     /\ UNCHANGED iters

\* node.regex()
Regex ==
  /\ last' = [op |-> "regex", index |-> 0, err |-> "", text |-> regex(node), val |-> 0]
  /\ UNCHANGED <<node, iters>>

Next ==
  \/ GetItem
  \/ Choices
  \/ Regex

Spec == Init /\ [][Next]_vars

---------------------------------------------------------------------------
(* Enumeration: RegexIter over the tree, interleaved with other queries *)

\* the trees enumerated
Samples ==
  Atoms
    \cup UNION { {add(a, b), or_(a, b)} : a \in Kids, b \in Kids }
    \cup { mul(a, r) : a \in {Value(TextA), CharacterRange(ChA, ChB)}, r \in Repeats }
    \cup { add(CharacterRange(ChA, ChB), CharacterSet({ChA}, TRUE, <<ChA>>)),
           CharacterSet({ChA, Caret}, FALSE, <<ChA>>) }

InitIter ==
  /\ node \in Samples
  /\ last = NoCall
  /\ iters = [e \in Iters |-> NoIter]

\* iter(node): RegexType.__iter__ and RegexIter.__init__
Iter(e) ==
  /\ iters' = [iters EXCEPT ![e] = [NoIter EXCEPT !.live = TRUE]]
  /\ UNCHANGED <<node, last>>

\* __next__ reading self.__regex[self.__index] after the increment
IterNext_after(e) ==
  LET it == iters[e]
      r == getitem(node, it.index + 1)
  IN /\ it.live
     /\ it.err = ""
     /\ it.stops < MaxStops
     /\ iters' = [iters EXCEPT ![e] =
                    IF r.err = "IndexError"
                    THEN [it EXCEPT !.index = it.index + 1, !.stops = it.stops + 1]
                    ELSE IF r.err # ""
                    THEN [it EXCEPT !.index = it.index + 1, !.err = r.err]
                    ELSE [it EXCEPT !.index = it.index + 1, !.out = Append(it.out, r.text)]]
     /\ node' = fill(node)
     /\ UNCHANGED last

\* RegexIter.__next__
IterNext(e) ==
  LET it == iters[e]
      r == getitem(node, it.index)
  IN /\ it.live
     /\ it.err = ""
     /\ it.stops < MaxStops
     /\ iters' = [iters EXCEPT ![e] =
                    IF r.err = "IndexError"
                    THEN [it EXCEPT !.index = it.index + 1, !.stops = it.stops + 1]
                    ELSE IF r.err # ""
                    THEN [it EXCEPT !.index = it.index + 1, !.err = r.err]
                    ELSE [it EXCEPT !.index = it.index + 1, !.out = Append(it.out, r.text)]]
     /\ node' = fill(node)
     /\ UNCHANGED last

NextIter ==
  \/ \E e \in Iters : Iter(e)
  \/ \E e \in Iters : IterNext(e)
  \/ GetItem
  \/ Choices

SpecIter == InitIter /\ [][NextIter]_vars

---------------------------------------------------------------------------
(* Properties *)

\* the call recorded in last is node[index] with index inside [0, cardinality)
AtInRange ==
  /\ last.op = "getitem"
  /\ choices(node).err = ""
  /\ 0 <= last.index
  /\ last.index < choices(node).val

\* the cardinalities of the children of a Product or Sum, in child order
Widths(self) == [k \in 1..Len(self.values) |-> choices(self.values[k]).val]

\* every child of a Product or Sum has a cardinality
ChildrenCount(self) == \A k \in 1..Len(self.values) : choices(self.values[k]).err = ""

\* the texts a node returns over [0, cardinality), in index order
Outputs(self) == [i \in 1..choices(self).val |-> getitem(self, i - 1).text]

RECURSIVE RadixBelow(_, _)
\* w0 * ... * w(k-1) for the 1-based child k + 1
RadixBelow(ws, k) == IF k = 0 THEN 1 ELSE ws[k] * RadixBelow(ws, k - 1)

\* the k-th mixed-radix digit of i, the first child least significant
Digit(ws, i, k) == (i \div RadixBelow(ws, k - 1)) % ws[k]

\* the tuples of the Cartesian product of the children's index ranges
Tuples(ws) ==
  LET top == IF Len(ws) = 0 THEN 0 ELSE CHOOSE m \in {ws[k] : k \in 1..Len(ws)} :
                                           \A k \in 1..Len(ws) : ws[k] <= m
  IN {d \in [1..Len(ws) -> 0..(top - 1)] : \A k \in 1..Len(ws) : d[k] < ws[k]}

\* C1: a Product whose children all have cardinality >= 1 has the product of
\* their cardinalities as cardinality (1 when empty); node[i] for i in range is
\* the concatenation, in child order, of child k at the k-th mixed-radix digit
\* of i (child 0 least significant); and i -> digits is one-to-one onto the
\* Cartesian product of the children's index ranges.
C1_ProductMixedRadix ==
  (node.kind = "Product" /\ ChildrenCount(node) /\ \A k \in 1..Len(node.values) : Widths(node)[k] >= 1)
  => LET ws == Widths(node)
         n == Len(ws)
         digits(i) == [k \in 1..n |-> Digit(ws, i, k)]
     IN /\ choices(node) = IntOk(RadixBelow(ws, n))
        /\ (last.op = "choices" => last.err = "" /\ last.val = RadixBelow(ws, n))
        /\ AtInRange =>
             /\ last.err = ""
             /\ last.text = Join([k \in 1..n |->
                                    getitem(node.values[k], Digit(ws, last.index, k)).text])
        /\ \A i \in 0..(RadixBelow(ws, n) - 1) :
             getitem(node, i) =
               StrOk(Join([k \in 1..n |-> getitem(node.values[k], Digit(ws, i, k)).text]))
        /\ {digits(i) : i \in 0..(RadixBelow(ws, n) - 1)} = Tuples(ws)
        /\ \A i, j \in 0..(RadixBelow(ws, n) - 1) : digits(i) = digits(j) => i = j

\* a Product of at least two children of different cardinalities > 1 was asked
\* for an index whose second digit is not zero
C1_Witness ==
  /\ node.kind = "Product"
  /\ Len(node.values) >= 2
  /\ ChildrenCount(node)
  /\ Widths(node)[1] > 1
  /\ Widths(node)[2] > Widths(node)[1]
  /\ AtInRange
  /\ last.err = ""
  /\ Digit(Widths(node), last.index, 1) > 0
  /\ Digit(Widths(node), last.index, 2) > 1

RECURSIVE Offset(_, _)
\* w0 + ... + w(k-1): where the block of the 1-based child k + 1 starts
Offset(ws, k) == IF k = 0 THEN 0 ELSE ws[k] + Offset(ws, k - 1)

RECURSIVE Chain(_)
\* the concatenation of a sequence of sequences
Chain(ss) == IF Len(ss) = 0 THEN <<>> ELSE Head(ss) \o Chain(Tail(ss))

\* C2: a Sum has the sum of its children's cardinalities as cardinality; for
\* i in range exactly one child's block [offset, offset + w) holds i and
\* node[i] is that child at i - offset; so the outputs over the range are the
\* children's outputs, in child order, with multiplicity.
C2_SumBlocks ==
  (node.kind = "Sum" /\ ChildrenCount(node))
  => LET ws == Widths(node)
         n == Len(ws)
         holds(i) == {k \in 1..n : Offset(ws, k - 1) <= i /\ i < Offset(ws, k)}
     IN /\ choices(node) = IntOk(Offset(ws, n))
        /\ (last.op = "choices" => last.err = "" /\ last.val = Offset(ws, n))
        /\ AtInRange =>
             /\ Cardinality(holds(last.index)) = 1
             /\ \A k \in holds(last.index) :
                  /\ last.err = ""
                  /\ last.text = getitem(node.values[k], last.index - Offset(ws, k - 1)).text
        /\ \A i \in 0..(Offset(ws, n) - 1) :
             /\ Cardinality(holds(i)) = 1
             /\ \A k \in holds(i) :
                  getitem(node, i) = getitem(node.values[k], i - Offset(ws, k - 1))
        /\ Outputs(node) = Chain([k \in 1..n |-> Outputs(node.values[k])])

\* a Sum of three children was asked for an index in its last child's block,
\* past that block's first index
C2_Witness ==
  /\ node.kind = "Sum"
  /\ Len(node.values) = 3
  /\ ChildrenCount(node)
  /\ Widths(node)[1] > 1
  /\ AtInRange
  /\ last.err = ""
  /\ last.index > Offset(Widths(node), 2)

\* C3: for every node, an index outside [0, cardinality), at or above the
\* cardinality or below zero, makes node[index] fail with IndexError and
\* return no text.
C3_OutOfRangeFails ==
  (last.op = "getitem" /\ choices(node).err = ""
     /\ (last.index < 0 \/ last.index >= choices(node).val))
  => last.err = "IndexError" /\ last.text = <<>>

\* the upper repetition bound of a Repeat: max when finite, else max(Cap, min)
UpperBound(r) == IF r.max # None THEN r.max ELSE IF Cap >= r.min THEN Cap ELSE r.min

\* the texts the child of a Repeated returns
ChildTexts(self) == {getitem(self.value, j).text : j \in 0..(choices(self.value).val - 1)}

RECURSIVE Concats(_, _)
\* the concatenations of k texts of S
Concats(S, k) ==
  IF k = 0 THEN {<<>>} ELSE {s \o t : s \in Concats(S, k - 1), t \in S}

\* the concatenations of min..upper bound child texts
RepeatTexts(self) ==
  UNION {Concats(ChildTexts(self), k) : k \in self.repeat.min..UpperBound(self.repeat)}

\* C4: for a Repeated node and i in range, node[i] is the concatenation of k
\* child outputs with min <= k <= the upper repetition bound.
C4_RepeatWithinBounds ==
  (node.kind = "Repeated" /\ AtInRange /\ last.err = "")
  => last.text \in RepeatTexts(node)

\* C5: every concatenation of k child outputs, min <= k <= the upper repetition
\* bound, is returned by the Repeated node at some index in range.
C5_RepeatExhaustive ==
  (node.kind = "Repeated" /\ AtInRange)
  => \A t \in RepeatTexts(node) :
       \E i \in 0..(choices(node).val - 1) : getitem(node, i) = StrOk(t)

\* C6: a Repeated node whose child has exactly one output v has cardinality
\* upper bound - min + 1 (1 for an unbounded repeat with min > Cap, Cap + 1 for
\* "*"), and node[i] for i in range is v repeated min + i times, so the outputs
\* in index order are v^min .. v^upper bound.
C6_SingleChoiceRepeat ==
  (node.kind = "Repeated" /\ choices(node.value) = IntOk(1))
  => LET r == node.repeat
         v == getitem(node.value, 0).text
         n == UpperBound(r) - r.min + 1
     IN /\ choices(node) = IntOk(n)
        /\ (last.op = "choices" => last.err = "" /\ last.val = n)
        /\ (r.max = None /\ r.min > Cap) => choices(node).val = 1
        /\ (r.max = None /\ r.min = 0) => choices(node).val = Cap + 1
        /\ AtInRange => last.err = "" /\ last.text = StrTimes(v, r.min + last.index)
        /\ Outputs(node) = [i \in 1..n |-> StrTimes(v, r.min + i - 1)]

\* "*" over a child with the single output v, not empty, was asked for its
\* last index and returned v Cap times
C6_Witness ==
  /\ node.kind = "Repeated"
  /\ choices(node.value) = IntOk(1)
  /\ getitem(node.value, 0).text # <<>>
  /\ node.repeat.max = None
  /\ node.repeat.min = 0
  /\ AtInRange
  /\ last.index = Cap
  /\ last.text = StrTimes(getitem(node.value, 0).text, Cap)

\* the textual encoding of a Repeat
Encoding(r) ==
  IF r.max # None
  THEN IF r.min = r.max THEN <<LBrace>> \o Str(r.min) \o <<RBrace>>
       ELSE <<LBrace>> \o Str(r.min) \o <<Comma>> \o Str(r.max) \o <<RBrace>>
  ELSE IF r.min > 1 THEN <<LBrace>> \o Str(r.min) \o <<Comma, RBrace>>
  ELSE IF r.min = 1 THEN <<Plus>>
  ELSE <<Star>>

\* C7: a Repeated node renders as its child's rendering followed by {min} when
\* max is finite and equals min (max = 0 included), {min,max} when finite and
\* unequal, {min,} when unbounded and min > 1, + when unbounded and min = 1,
\* * when unbounded and min = 0.
C7_RepeatEncoding ==
  (node.kind = "Repeated" /\ last.op = "regex")
  => last.text = regex(node.value) \o Encoding(node.repeat)

\* C8: an enumerator over a node of cardinality n has yielded node[0],
\* node[1], ... in order, at most n of them, has signalled exhaustion on every
\* request after the n-th and raised nothing else, whatever other calls and
\* enumerators ran in between; two enumerators that have been asked equally
\* often have yielded the same texts.
C8_EnumeratorSequence ==
  choices(node).err = ""
  => LET n == choices(node).val
     IN /\ \A e \in Iters :
             LET it == iters[e]
                 got == IF it.index <= n THEN it.index ELSE n
             IN /\ it.err = ""
                /\ it.out = [k \in 1..got |-> getitem(node, k - 1).text]
                /\ it.stops = it.index - got
                /\ it.stops > 0 => it.out = Outputs(node)
        /\ \A e, f \in Iters : iters[e].index = iters[f].index => iters[e].out = iters[f].out

\* an enumerator over a node of cardinality >= 2 is exhausted and was asked
\* again, another one is half way, and node[i] was called in between
C8_Witness ==
  /\ choices(node).err = ""
  /\ choices(node).val >= 2
  /\ iters[1].live
  /\ iters[1].stops = MaxStops
  /\ Len(iters[1].out) = choices(node).val
  /\ iters[2].live
  /\ iters[2].index = 1
  /\ Len(iters[2].out) = 1
  /\ last.op = "getitem"

\* C9: a CharacterSet that is not negated renders as [ body ] where body holds
\* each character once, every - and ^ after all other characters, and body
\* does not begin with ^.
C9_SetRendering ==
  (node.kind = "CharacterSet" /\ ~node.negated /\ last.op = "regex")
  => LET t == last.text
         body == SubSeq(t, 2, Len(t) - 1)
         meta == {Dash, Caret}
     IN /\ Len(t) >= 3
        /\ t[1] = LBracket
        /\ t[Len(t)] = RBracket
        /\ body = node.values
        /\ \A i, j \in 1..Len(body) : body[i] = body[j] => i = j
        /\ \A i, j \in 1..Len(body) : (i < j /\ body[i] \in meta) => body[j] \in meta
        /\ body[1] # Caret

RECURSIVE FlatValues(_)
\* the children of a Product with every nested Product replaced by its children
FlatValues(self) ==
  IF self.kind = "Product"
  THEN Chain([k \in 1..Len(self.values) |-> FlatValues(self.values[k])])
  ELSE <<self>>

\* C10: Product indexing does not depend on nesting: a Product whose innermost
\* children all have cardinality >= 1 has the cardinality and the outputs of
\* the Product of those children in one level; three children a, b, c give
\* the same in Product(a, b, c), Product(Product(a, b), c), Product(a,
\* Product(b, c)), and in a + (b + c) and (a + b) + c.
C10_ProductNesting ==
  LET flat == IF node.kind = "Product" THEN FlatValues(node) ELSE <<>>
      level == Product(flat)
  IN (node.kind = "Product"
        /\ \A k \in 1..Len(flat) : choices(flat[k]).err = "" /\ choices(flat[k]).val >= 1)
     => /\ choices(node) = choices(level)
        /\ \A i \in 0..(choices(level).val - 1) : getitem(node, i) = getitem(level, i)
        /\ AtInRange => last.err = "" /\ last.text = getitem(level, last.index).text
        /\ Len(flat) = 3 =>
             LET a == flat[1]
                 b == flat[2]
                 c == flat[3]
                 forms == { Product(<<a, b, c>>), Product(<<Product(<<a, b>>), c>>),
                            Product(<<a, Product(<<b, c>>)>>), add(a, add(b, c)),
                            add(add(a, b), c) }
             IN \A f \in forms :
                  /\ choices(f) = choices(level)
                  /\ \A i \in 0..(choices(level).val - 1) : getitem(f, i) = getitem(level, i)

\* a Product nested on the right, a + (b + c) with three cardinalities > 1,
\* was asked for an index that selects a later output of each child
C10_Witness ==
  /\ node.kind = "Product"
  /\ Len(node.values) = 2
  /\ node.values[2].kind = "Product"
  /\ Len(FlatValues(node)) = 3
  /\ \A k \in 1..3 : choices(FlatValues(node)[k]).val > 1
  /\ AtInRange
  /\ last.err = ""
  /\ \A k \in 1..3 :
       Digit([j \in 1..3 |-> choices(FlatValues(node)[j]).val], last.index, k) > 0

====
